---- MODULE Spec2Model ----
(***************************************************************************)
(* cat-tracker (src/app.py): a Flask application over three tables (cats,  *)
(* sightings, cat_photos).  The tables are the state; every route handler  *)
(* is one action; the helpers (allowed_file, file_to_base64,               *)
(* normalize_datetime, combine_date_time, get_all_cat_photos) are          *)
(* operators.  home, history and health only render what the tables hold   *)
(* and are left out.                                                       *)
(*                                                                         *)
(* Values.  A Python str / SQL TEXT value is the sequence of its code      *)
(* points (so that strip, rsplit, endswith, lower and the ordering of      *)
(* strings can be computed).  None / SQL NULL is NULL.  A datetime object  *)
(* is <<DATETIME, <<Y, m, d, H, M, S>>>>.  Uploaded bytes are sequences    *)
(* of numbers 0..255.                                                      *)
(***************************************************************************)
EXTENDS Integers, Sequences, FiniteSets, TLC

\* ------------------------------------------------------------------ bounds
MaxCatId      == 2   \* ids the cats sequence hands out
MaxSightingId == 1   \* ids the sightings sequence hands out
MaxPhotoId    == 1   \* ids the cat_photos sequence hands out
MaxClock      == 1   \* ticks of the wall clock

\* ------------------------------------------------------------- characters
\* A character is its code point; a str is a sequence of code points.
\* The ASCII characters the model writes, by code point: 32..33, 35..90, 97..126
ASCII_32 == << " ", "!" >>

ASCII_35 ==
  << "#", "$", "%", "&", "'", "(", ")", "*", "+", ",", "-", ".", "/",
     "0", "1", "2", "3", "4", "5", "6", "7", "8", "9", ":", ";", "<", "=", ">", "?",
     "@", "A", "B", "C", "D", "E", "F", "G", "H", "I", "J", "K", "L", "M", "N", "O",
     "P", "Q", "R", "S", "T", "U", "V", "W", "X", "Y", "Z" >>

ASCII_97 ==
  << "a", "b", "c", "d", "e", "f", "g", "h", "i", "j", "k", "l", "m", "n", "o",
     "p", "q", "r", "s", "t", "u", "v", "w", "x", "y", "z", "{", "|", "}", "~" >>

\* ord(c) for a character of these tables
ord(c) ==
  IF \E i \in 1..Len(ASCII_32) : ASCII_32[i] = c
    THEN 31 + (CHOOSE i \in 1..Len(ASCII_32) : ASCII_32[i] = c)
  ELSE IF \E i \in 1..Len(ASCII_35) : ASCII_35[i] = c
    THEN 34 + (CHOOSE i \in 1..Len(ASCII_35) : ASCII_35[i] = c)
  ELSE 96 + (CHOOSE i \in 1..Len(ASCII_97) : ASCII_97[i] = c)

\* The str written as a sequence of one-character strings
Str(s) == << >> \o [i \in 1..Len(s) |-> ord(s[i])]

\* None / SQL NULL: no str, since -1 is no code point
NULL == <<-1>>

EMPTY == << >>

SPACE == ord(" ")

DOT == ord(".")

PLUS == ord("+")

ZERO == ord("0")

UPPER_A == ord("A")

LOWER_A == ord("a")

UPPER_Z == ord("Z")

IsUpper(c) == c >= UPPER_A /\ c < UPPER_A + 26

\* str.lower() on one character
LowerChar(c) == IF IsUpper(c) THEN c - UPPER_A + LOWER_A ELSE c

\* str.lower()
Lower(s) == << >> \o [i \in 1..Len(s) |-> LowerChar(s[i])]

IsSpace(c) == c = SPACE

IsDigit(c) == c >= ZERO /\ c < ZERO + 10

DigitVal(c) == c - ZERO

DigitChar(n) == ZERO + n

\* Python truthiness of a str-or-None value
Truthy(v) == v # NULL /\ v # EMPTY

\* x or ''
OrEmpty(v) == IF Truthy(v) THEN v ELSE EMPTY

RECURSIVE LStrip(_)
LStrip(s) == IF s # EMPTY /\ IsSpace(Head(s)) THEN LStrip(Tail(s)) ELSE s

RECURSIVE RStrip(_)
RStrip(s) ==
  IF s # EMPTY /\ IsSpace(s[Len(s)]) THEN RStrip(SubSeq(s, 1, Len(s) - 1)) ELSE s

\* str.strip()
Strip(s) == RStrip(LStrip(s))

\* c in s
Contains(s, c) == \E i \in 1..Len(s) : s[i] = c

\* s.endswith(c) for a one-character suffix
EndsWith(s, c) == s # EMPTY /\ s[Len(s)] = c

\* s.split(c)[0]: the text before the first c (all of s when c is absent)
SplitFirst(s, c) ==
  IF Contains(s, c)
    THEN SubSeq(s, 1, (CHOOSE i \in 1..Len(s) :
                         s[i] = c /\ \A j \in 1..(i - 1) : s[j] # c) - 1)
    ELSE s

\* s.rsplit(c, 1)[1]: the text after the last c (only used when c is in s)
RSplitLast(s, c) ==
  SubSeq(s, (CHOOSE i \in 1..Len(s) :
               s[i] = c /\ \A j \in (i + 1)..Len(s) : s[j] # c) + 1, Len(s))

\* Python's a < b on two str values: code point order, a proper prefix first
RECURSIVE StrLess(_, _)
StrLess(a, b) ==
  IF b = EMPTY THEN FALSE
  ELSE IF a = EMPTY THEN TRUE
  ELSE IF Head(a) = Head(b) THEN StrLess(Tail(a), Tail(b))
  ELSE Head(a) < Head(b)

StrLeq(a, b) == a = b \/ StrLess(a, b)

\* ------------------------------------------------------------------ uploads
EXT_PNG == Str(<<"p", "n", "g">>)

EXT_JPG == Str(<<"j", "p", "g">>)

EXT_JPEG == Str(<<"j", "p", "e", "g">>)

EXT_GIF == Str(<<"g", "i", "f">>)

EXT_WEBP == Str(<<"w", "e", "b", "p">>)

\* ALLOWED_EXTENSIONS
ALLOWED_EXTENSIONS == { EXT_PNG, EXT_JPG, EXT_JPEG, EXT_GIF, EXT_WEBP }

\* allowed_file comparing the extension as it is written
allowed_file_case_sensitive(filename) ==
  /\ Contains(filename, DOT)
  /\ RSplitLast(filename, DOT) \in ALLOWED_EXTENSIONS

\* allowed_file(filename)
allowed_file(filename) ==
  /\ Contains(filename, DOT)
  /\ Lower(RSplitLast(filename, DOT)) \in ALLOWED_EXTENSIONS

IMAGE_JPEG == Str(<<"i", "m", "a", "g", "e", "/", "j", "p", "e", "g">>)

IMAGE_PNG == Str(<<"i", "m", "a", "g", "e", "/", "p", "n", "g">>)

IMAGE_GIF == Str(<<"i", "m", "a", "g", "e", "/", "g", "i", "f">>)

IMAGE_WEBP == Str(<<"i", "m", "a", "g", "e", "/", "w", "e", "b", "p">>)

\* mime_types.get(ext, 'image/jpeg')
mime_types_get(ext) ==
  CASE ext = EXT_JPG  -> IMAGE_JPEG
    [] ext = EXT_JPEG -> IMAGE_JPEG
    [] ext = EXT_PNG  -> IMAGE_PNG
    [] ext = EXT_GIF  -> IMAGE_GIF
    [] ext = EXT_WEBP -> IMAGE_WEBP
    [] OTHER          -> IMAGE_JPEG

B64_PLUS == ord("+")

B64_SLASH == ord("/")

B64_PAD == ord("=")

\* The base64 alphabet: A-Z, a-z, 0-9, +, /
B64Char(n) ==
  IF n < 26 THEN UPPER_A + n
  ELSE IF n < 52 THEN LOWER_A + (n - 26)
  ELSE IF n < 62 THEN ZERO + (n - 52)
  ELSE IF n = 62 THEN B64_PLUS ELSE B64_SLASH

\* base64.b64encode(data).decode('utf-8'): three bytes to four characters,
\* the last group padded with "="
RECURSIVE b64encode(_)
b64encode(data) ==
  IF Len(data) = 0 THEN EMPTY
  ELSE IF Len(data) = 1 THEN
    << B64Char(data[1] \div 4), B64Char((data[1] % 4) * 16), B64_PAD, B64_PAD >>
  ELSE IF Len(data) = 2 THEN
    << B64Char(data[1] \div 4),
       B64Char((data[1] % 4) * 16 + data[2] \div 16),
       B64Char((data[2] % 16) * 4), B64_PAD >>
  ELSE
    << B64Char(data[1] \div 4),
       B64Char((data[1] % 4) * 16 + data[2] \div 16),
       B64Char((data[2] % 16) * 4 + data[3] \div 64),
       B64Char(data[3] % 64) >> \o b64encode(SubSeq(data, 4, Len(data)))

\* An uploaded file (werkzeug FileStorage) is <<filename, bytes>>; NoFile is the
\* form sent without that file field.  bool(file) is bool(file.filename).
NoFile == <<-2>>

FileName(file) == file[1]

FileBytes(file) == file[2]

HasFileName(file) == file # NoFile /\ FileName(file) # EMPTY

\* An image as the tables hold it: <<image_data, image_type>>
NoImage == <<NULL, NULL>>

\* file_to_base64(file)
file_to_base64(file) ==
  IF HasFileName(file) /\ allowed_file(FileName(file))
    THEN << b64encode(FileBytes(file)),
            mime_types_get(Lower(RSplitLast(FileName(file), DOT))) >>
    ELSE NoImage

DATA_URI == Str(<<"d", "a", "t", "a", ":">>)

BASE64_MARK == Str(<<";", "b", "a", "s", "e", "6", "4", ",">>)

\* get_image_src(image_data, image_type)
get_image_src(image_data, image_type) ==
  IF Truthy(image_data) /\ Truthy(image_type)
    THEN DATA_URI \o image_type \o BASE64_MARK \o image_data
    ELSE NULL

\* -------------------------------------------------------------------- dates
\* A datetime object
DATETIME == -3

DateTime(Y, m, d, H, M, S) == <<DATETIME, <<Y, m, d, H, M, S>>>>

IsDateTime(v) == Len(v) = 2 /\ v[1] = DATETIME

DASH == ord("-")

COLON == ord(":")

UPPER_T == ord("T")

Pad2(n) == << DigitChar((n \div 10) % 10), DigitChar(n % 10) >>

Pad4(n) == Pad2(n \div 100) \o Pad2(n % 100)

\* dt.strftime('%Y-%m-%dT%H:%M:%SZ')
strftime(dt) ==
  LET f == dt[2]
  IN  Pad4(f[1]) \o <<DASH>> \o Pad2(f[2]) \o <<DASH>> \o Pad2(f[3]) \o <<UPPER_T>>
        \o Pad2(f[4]) \o <<COLON>> \o Pad2(f[5]) \o <<COLON>> \o Pad2(f[6]) \o <<UPPER_Z>>

IsLeap(Y) == (Y % 4 = 0 /\ Y % 100 # 0) \/ Y % 400 = 0

DaysInMonth(Y, m) ==
  IF m = 2 THEN (IF IsLeap(Y) THEN 29 ELSE 28)
  ELSE IF m \in {4, 6, 9, 11} THEN 30 ELSE 31

\* What the datetime constructor accepts (it raises ValueError otherwise)
ValidDateTime(f) ==
  /\ f[1] >= 1 /\ f[2] \in 1..12 /\ f[3] \in 1..DaysInMonth(f[1], f[2])
  /\ f[4] \in 0..23 /\ f[5] \in 0..59 /\ f[6] \in 0..59

\* The regular expression strptime builds for a directive, as its alternatives
\* in the order the regex tries them: <<number of digits, least, greatest>>.
\* ("%d" also takes a space and one digit; no text of the model has that.)
DirectiveAlts(dir) ==
  CASE dir = "%Y" -> << <<4, 0, 9999>> >>
    [] dir = "%m" -> << <<2, 10, 12>>, <<2, 1, 9>>, <<1, 1, 9>> >>
    [] dir = "%d" -> << <<2, 30, 31>>, <<2, 10, 29>>, <<2, 1, 9>>, <<1, 1, 9>> >>
    [] dir = "%H" -> << <<2, 20, 23>>, <<2, 0, 19>>, <<1, 0, 9>> >>
    [] dir = "%M" -> << <<2, 0, 59>>, <<1, 0, 9>> >>
    [] dir = "%S" -> << <<2, 60, 61>>, <<2, 0, 59>>, <<1, 0, 9>> >>
    [] dir = "%f" -> << <<6, 0, 999999>>, <<5, 0, 99999>>, <<4, 0, 9999>>,
                        <<3, 0, 999>>, <<2, 0, 99>>, <<1, 0, 9>> >>

IsDirective(tok) == tok \in {"%Y", "%m", "%d", "%H", "%M", "%S", "%f"}

\* Where each directive's number goes in <<Y, m, d, H, M, S>> (%f: nowhere kept)
FieldOf(dir) ==
  CASE dir = "%Y" -> 1 [] dir = "%m" -> 2 [] dir = "%d" -> 3
    [] dir = "%H" -> 4 [] dir = "%M" -> 5 [] dir = "%S" -> 6 [] dir = "%f" -> 0

RECURSIVE DigitsValue(_)
DigitsValue(s) ==
  IF s = EMPTY THEN 0 ELSE DigitsValue(SubSeq(s, 1, Len(s) - 1)) * 10 + DigitVal(s[Len(s)])

\* Does alternative alt match s at position i
AltMatches(s, i, alt) ==
  /\ i + alt[1] - 1 <= Len(s)
  /\ \A k \in i..(i + alt[1] - 1) : IsDigit(s[k])
  /\ DigitsValue(SubSeq(s, i, i + alt[1] - 1)) \in alt[2]..alt[3]

RECURSIVE SkipSpaces(_, _)
SkipSpaces(s, i) == IF i <= Len(s) /\ IsSpace(s[i]) THEN SkipSpaces(s, i + 1) ELSE i

NoMatch == <<-4>>

\* re.match of the format's regex (compiled IGNORECASE) on s from position i,
\* with format tokens fmt[j..]: the first match in the regex's order, as
\* <<0, end, fields>>, or NoMatch
RECURSIVE ReMatch(_, _, _, _, _)
RECURSIVE ReTryAlts(_, _, _, _, _, _)
ReMatch(s, i, fmt, j, fields) ==
  IF j > Len(fmt) THEN <<0, i, fields>>
  ELSE IF IsDirective(fmt[j]) THEN ReTryAlts(s, i, fmt, j, fields, 1)
  ELSE IF fmt[j] = " " THEN
    (IF i <= Len(s) /\ IsSpace(s[i])
       THEN ReMatch(s, SkipSpaces(s, i), fmt, j + 1, fields)
       ELSE NoMatch)
  ELSE IF i <= Len(s) /\ LowerChar(s[i]) = LowerChar(ord(fmt[j]))
    THEN ReMatch(s, i + 1, fmt, j + 1, fields)
    ELSE NoMatch

ReTryAlts(s, i, fmt, j, fields, k) ==
  LET alts == DirectiveAlts(fmt[j])
  IN  IF k > Len(alts) THEN NoMatch
      ELSE IF AltMatches(s, i, alts[k]) THEN
        LET val  == DigitsValue(SubSeq(s, i, i + alts[k][1] - 1))
            next == IF FieldOf(fmt[j]) = 0 THEN fields
                    ELSE [fields EXCEPT ![FieldOf(fmt[j])] = val]
            rest == ReMatch(s, i + alts[k][1], fmt, j + 1, next)
        IN  IF rest # NoMatch THEN rest ELSE ReTryAlts(s, i, fmt, j, fields, k + 1)
      ELSE ReTryAlts(s, i, fmt, j, fields, k + 1)

\* datetime.strptime(s, fmt): the datetime, or NoMatch where it raises
\* ValueError (no match, unconverted data remains, or no such date).  Fields
\* the format does not name default to 1900-01-01 00:00:00.
strptime(s, fmt) ==
  LET r == ReMatch(s, 1, fmt, 1, <<1900, 1, 1, 0, 0, 0>>)
  IN  IF r = NoMatch THEN NoMatch
      ELSE IF r[2] # Len(s) + 1 THEN NoMatch
      ELSE IF ~ValidDateTime(r[3]) THEN NoMatch
      ELSE <<DATETIME, r[3]>>

\* The formats normalize_datetime tries, in its order
formats ==
  << <<"%Y", "-", "%m", "-", "%d", "T", "%H", ":", "%M", ":", "%S">>,
     <<"%Y", "-", "%m", "-", "%d", " ", "%H", ":", "%M", ":", "%S">>,
     <<"%Y", "-", "%m", "-", "%d", " ", "%H", ":", "%M", ":", "%S", ".", "%f">>,
     <<"%Y", "-", "%m", "-", "%d", " ", "%H", ":", "%M">>,
     <<"%Y", "-", "%m", "-", "%d">> >>

RECURSIVE TryFormats(_, _)
TryFormats(dt_string, k) ==
  IF k > Len(formats) THEN dt_string
  ELSE LET dt == strptime(SplitFirst(SplitFirst(dt_string, DOT), PLUS), formats[k])
       IN  IF dt # NoMatch THEN strftime(dt) ELSE TryFormats(dt_string, k + 1)

\* normalize_datetime(dt_string): dt_string is None, a datetime or a str
normalize_datetime(dt_string) ==
  IF dt_string = NULL \/ dt_string = EMPTY THEN NULL
  ELSE IF IsDateTime(dt_string) THEN strftime(dt_string)
  ELSE IF EndsWith(dt_string, UPPER_Z) THEN dt_string
  ELSE TryFormats(dt_string, 1)

SECONDS_Z == Str(<<":", "0", "0", "Z">>)

MIDNIGHT_Z == Str(<<"T", "0", "0", ":", "0", "0", ":", "0", "0", "Z">>)

\* combine_date_time(date_str, time_str)
combine_date_time(date_str, time_str) ==
  IF ~Truthy(date_str) THEN NULL
  ELSE IF Truthy(time_str)
    THEN date_str \o <<UPPER_T>> \o time_str \o SECONDS_Z
    ELSE date_str \o MIDNIGHT_Z

\* -------------------------------------------------------------------- state
VARIABLES
  DB_TYPE,        \* 'postgresql' when DATABASE_URL is set, else 'sqlite'
  cats,           \* table cats: id -> row
  sightings,      \* table sightings: id -> row
  cat_photos,     \* table cat_photos: id -> row
  seq_cats,       \* last id the cats id sequence handed out
  seq_sightings,  \* last id the sightings id sequence handed out
  seq_photos,     \* last id the cat_photos id sequence handed out
  now,            \* the wall clock, in ticks
  last            \* the last request: handler, the path it took, how it ended

tables == <<cats, sightings, cat_photos>>

seqs == <<seq_cats, seq_sightings, seq_photos>>

vars == <<DB_TYPE, cats, sightings, cat_photos, seq_cats, seq_sightings, seq_photos, now, last>>

\* sqlite3.connect never issues PRAGMA foreign_keys = ON, so SQLite parses the
\* FOREIGN KEY ... ON DELETE CASCADE clauses and does not act on them;
\* PostgreSQL enforces REFERENCES ... ON DELETE CASCADE.
ForeignKeysEnforced == DB_TYPE = "postgresql"

\* datetime.now(timezone.utc): the clock starts one second before a minute ends
ClockTime(t) == DateTime(2024, 1, 1, 0, (59 + t) \div 60, (59 + t) % 60)

\* get_utc_now()
get_utc_now == strftime(ClockTime(now))

\* What a created_at column holds for the text the code inserts: TEXT in
\* SQLite, TIMESTAMP in PostgreSQL (which reads the ISO text and drops the zone;
\* psycopg2 hands it back as a datetime)
CreatedAtColumn(text) ==
  IF DB_TYPE = "postgresql"
    THEN strptime(SubSeq(text, 1, Len(text) - 1), formats[1])
    ELSE text

\* A function without the keys in gone
Without(f, gone) == [k \in DOMAIN f \ gone |-> f[k]]

\* A function with one more key
With(f, k, v) == [x \in DOMAIN f \cup {k} |-> IF x = k THEN v ELSE f[x]]

Response(op, path, result) == [op |-> op, path |-> path, result |-> result]

\* A cats table whose name column is not UNIQUE
UniqueViolationNever(name, self) == FALSE

\* name TEXT NOT NULL UNIQUE: would a row other than `self` clash with `name`
UniqueViolation(name, self) ==
  \E c \in DOMAIN cats : c # self /\ cats[c].name = name

\* cat_id ... REFERENCES cats(id): would a dependent row for cat_id be refused
ForeignKeyViolation(cat_id) == ForeignKeysEnforced /\ cat_id \notin DOMAIN cats

\* PostgreSQL draws the SERIAL id before it checks the constraints, so an
\* INSERT that fails still uses the id up; SQLite's AUTOINCREMENT does not.
SeqAfterFailedInsert(seq) == IF DB_TYPE = "postgresql" THEN seq + 1 ELSE seq

\* DELETE FROM cat_photos WHERE cat_id = ?
DeletePhotosOfCat(photos, cat_id) ==
  Without(photos, {p \in DOMAIN photos : photos[p].cat_id = cat_id})

\* delete_cat without its DELETE FROM sightings
DeleteSightingsOfCatSkipped(sights, cat_id) == sights

\* DELETE FROM sightings WHERE cat_id = ?
DeleteSightingsOfCat(sights, cat_id) ==
  Without(sights, {x \in DOMAIN sights : sights[x].cat_id = cat_id})

\* ON DELETE CASCADE, where the engine acts on it
Cascade(dependents, cat_id) ==
  IF ForeignKeysEnforced
    THEN Without(dependents, {x \in DOMAIN dependents : dependents[x].cat_id = cat_id})
    ELSE dependents

Init ==
  /\ DB_TYPE \in {"sqlite", "postgresql"}
  /\ cats = << >>
  /\ sightings = << >>
  /\ cat_photos = << >>
  /\ seq_cats = 0
  /\ seq_sightings = 0
  /\ seq_photos = 0
  /\ now = 0
  /\ last = Response("init_db", "created", "none")

\* ------------------------------------------------------------ request inputs
CatIds == 1..MaxCatId

SightingIds == 1..MaxSightingId

PhotoIds == 1..MaxPhotoId

\* request.form 'name': "a", " a" (strips to "a"), "b", " " (strips to '')
NameInputs == { Str(<<"a">>), Str(<<" ", "a">>), Str(<<"b">>), Str(<<" ">>) }

\* request.form 'name' of a renaming: " a" (strips to "a"), "b", " "
EditNames == { Str(<<" ", "a">>), Str(<<"b">>), Str(<<" ">>) }

\* request.form 'name' where every request names the same cat
OneName == { Str(<<" ", "a">>) }

\* request.form 'description', 'location', 'notes', 'caption'
TextInputs == { Str(<<" ", "t">>) }

\* An uploaded image: a.PNG holding the byte 1
PNG_FILE == << Str(<<"a", ".", "P", "N", "G">>), <<1>> >>

\* An uploaded image: b.jpg holding the byte 2
JPG_FILE == << Str(<<"b", ".", "j", "p", "g">>), <<2>> >>

\* An uploaded image with two dots in its name: g.x.gif holding the byte 3
GIF_FILE == << Str(<<"g", ".", "x", ".", "g", "i", "f">>), <<3>> >>

\* An upload with an accepted name and no content: e.jpeg
EMPTY_FILE == << Str(<<"e", ".", "j", "p", "e", "g">>), << >> >>

\* An upload the allow-list refuses: c.txt
TXT_FILE == << Str(<<"c", ".", "t", "x", "t">>), <<1>> >>

\* An upload whose name has no dot: png
NO_DOT_FILE == << Str(<<"p", "n", "g">>), <<1>> >>

\* request.files: no file, an image, a file the allow-list refuses
FileInputs == { NoFile, PNG_FILE, TXT_FILE }

\* request.files: no file, or an image
ImageInputs == { NoFile, PNG_FILE }

\* request.files 'image': two images, an empty file, a name without a dot
UploadInputs == { NoFile, PNG_FILE, JPG_FILE, EMPTY_FILE, NO_DOT_FILE }

\* files one photos field can carry
MaxFiles == 2

\* request.files.getlist('photos'): every list of at most MaxFiles of the files
PhotoLists(files) == UNION { [1..n -> files \ {NoFile}] : n \in 0..MaxFiles }

\* request.files.getlist('photos') over FileInputs
FileLists == PhotoLists(FileInputs)

\* request.files.getlist('photos') over ImageInputs
ImageLists == PhotoLists(ImageInputs)

\* request.files.getlist('photos'): no file, an image, a file that is not
\* accepted, and an image after a file that is not stored
GalleryLists ==
  { << >>, <<GIF_FILE>>, <<TXT_FILE>>, <<TXT_FILE, GIF_FILE>>, <<EMPTY_FILE, GIF_FILE>> }

\* request.files.getlist('photos') with no file or one image
EditLists == { << >>, <<PNG_FILE>> }

\* request.form 'cat_id' of log_sighting: absent, or an id
CatIdInputs == CatIds \cup {0}

\* request.form 'photo_date', 'photo_time' left out
NoPhotoDate == { EMPTY }

\* request.form 'photo_date': absent, a date, text that is no date
PhotoDateInputs ==
  { EMPTY, Str(<<"2", "0", "2", "4", "-", "0", "1", "-", "0", "1">>), Str(<<"x">>) }

\* request.form 'photo_time': absent, or a time
PhotoTimeInputs == { EMPTY, Str(<<"0", "9", ":", "3", "0">>) }

\* <source> of the photo routes
SourceInputs == { "gallery", "sighting", "other" }

\* --------------------------------------------------------------- handlers
\* quick_add_cat()
quick_add_cat(name_in) ==
  LET name == Strip(name_in)
  IN  /\ UNCHANGED <<DB_TYPE, sightings, cat_photos, seq_sightings, seq_photos, now>>
      /\ IF name = EMPTY
           THEN /\ UNCHANGED <<cats, seq_cats>>
                /\ last' = Response("quick_add_cat", "no_name", "redirect")
         ELSE IF UniqueViolation(name, 0)
           THEN \* execute_query rolls back and raises; except: pass
                /\ SeqAfterFailedInsert(seq_cats) <= MaxCatId
                /\ seq_cats' = SeqAfterFailedInsert(seq_cats)
                /\ UNCHANGED cats
                /\ last' = Response("quick_add_cat", "swallowed", "redirect")
         ELSE /\ seq_cats < MaxCatId
              /\ seq_cats' = seq_cats + 1
              /\ cats' = With(cats, seq_cats + 1,
                              [name |-> name, description |-> NULL,
                               image_data |-> NULL, image_type |-> NULL,
                               created_at |-> CreatedAtColumn(get_utc_now)])
              /\ last' = Response("quick_add_cat", "inserted", "redirect")

\* add_cat()
add_cat(name_in, description_in, file) ==
  LET name        == Strip(name_in)
      description == Strip(description_in)
      image       == file_to_base64(file)
  IN  /\ UNCHANGED <<DB_TYPE, sightings, cat_photos, seq_sightings, seq_photos, now>>
      /\ IF name = EMPTY
           THEN /\ UNCHANGED <<cats, seq_cats>>
                /\ last' = Response("add_cat", "no_name", "redirect")
         ELSE IF UniqueViolation(name, 0)
           THEN \* execute_query rolls back and raises; except: pass
                /\ SeqAfterFailedInsert(seq_cats) <= MaxCatId
                /\ seq_cats' = SeqAfterFailedInsert(seq_cats)
                /\ UNCHANGED cats
                /\ last' = Response("add_cat", "swallowed", "redirect")
         ELSE /\ seq_cats < MaxCatId
              /\ seq_cats' = seq_cats + 1
              /\ cats' = With(cats, seq_cats + 1,
                              [name |-> name, description |-> description,
                               image_data |-> image[1], image_type |-> image[2],
                               created_at |-> CreatedAtColumn(get_utc_now)])
              /\ last' = Response("add_cat", "inserted", "redirect")

\* edit_cat with a single UPDATE that always writes the image columns
edit_cat_overwrites_image(cat_id, name_in, description_in, file) ==
  LET name        == Strip(name_in)
      description == Strip(description_in)
      image       == IF HasFileName(file) THEN file_to_base64(file) ELSE NoImage
  IN  /\ UNCHANGED <<DB_TYPE, sightings, cat_photos, seqs, now>>
      /\ IF name = EMPTY
           THEN /\ UNCHANGED cats
                /\ last' = Response("edit_cat", "no_name", "redirect")
         ELSE IF cat_id \notin DOMAIN cats
           THEN /\ UNCHANGED cats
                /\ last' = Response("edit_cat", "no_row", "redirect")
         ELSE IF UniqueViolation(name, cat_id)
           THEN /\ UNCHANGED cats
                /\ last' = Response("edit_cat", "db_error", "raise")
         ELSE /\ cats' = [cats EXCEPT ![cat_id].name = name,
                                      ![cat_id].description = description,
                                      ![cat_id].image_data = image[1],
                                      ![cat_id].image_type = image[2]]
              /\ last' = Response("edit_cat",
                                  IF Truthy(image[1]) THEN "updated_image" ELSE "updated",
                                  "redirect")

\* edit_cat(cat_id)
edit_cat(cat_id, name_in, description_in, file) ==
  LET name        == Strip(name_in)
      description == Strip(description_in)
      image       == IF HasFileName(file) THEN file_to_base64(file) ELSE NoImage
      with_image  == HasFileName(file) /\ Truthy(image[1])
  IN  /\ UNCHANGED <<DB_TYPE, sightings, cat_photos, seqs, now>>
      /\ IF name = EMPTY
           THEN /\ UNCHANGED cats
                /\ last' = Response("edit_cat", "no_name", "redirect")
         ELSE IF cat_id \notin DOMAIN cats
           THEN \* the UPDATE matches no row
                /\ UNCHANGED cats
                /\ last' = Response("edit_cat", "no_row", "redirect")
         ELSE IF UniqueViolation(name, cat_id)
           THEN \* execute_query rolls back and raises; nothing catches it
                /\ UNCHANGED cats
                /\ last' = Response("edit_cat", "db_error", "raise")
         ELSE IF with_image
           THEN /\ cats' = [cats EXCEPT ![cat_id].name = name,
                                        ![cat_id].description = description,
                                        ![cat_id].image_data = image[1],
                                        ![cat_id].image_type = image[2]]
                /\ last' = Response("edit_cat", "updated_image", "redirect")
         ELSE /\ cats' = [cats EXCEPT ![cat_id].name = name,
                                      ![cat_id].description = description]
              /\ last' = Response("edit_cat", "updated", "redirect")

\* remove_profile_photo(cat_id)
remove_profile_photo(cat_id) ==
  /\ UNCHANGED <<DB_TYPE, sightings, cat_photos, seqs, now>>
  /\ cats' = [c \in DOMAIN cats |->
                IF c = cat_id
                  THEN [cats[c] EXCEPT !.image_data = NULL, !.image_type = NULL]
                  ELSE cats[c]]
  /\ last' = Response("remove_profile_photo", "updated", "redirect")

\* delete_cat(cat_id): three statements, each committed on its own
delete_cat(cat_id) ==
  LET photos1 == DeletePhotosOfCat(cat_photos, cat_id)
      sights1 == DeleteSightingsOfCat(sightings, cat_id)
  IN  /\ UNCHANGED <<DB_TYPE, seqs, now>>
      /\ cats' = Without(cats, {cat_id})
      /\ cat_photos' = Cascade(photos1, cat_id)
      /\ sightings' = Cascade(sights1, cat_id)
      /\ last' = Response("delete_cat", "deleted", "redirect")

\* log_sighting()
log_sighting(cat_id, location, notes, file) ==
  LET image == file_to_base64(file)
  IN  /\ UNCHANGED <<DB_TYPE, cats, cat_photos, seq_cats, seq_photos, now>>
      /\ IF cat_id = 0
           THEN \* if cat_id: is false
                /\ UNCHANGED <<sightings, seq_sightings>>
                /\ last' = Response("log_sighting", "no_cat_id", "redirect")
         ELSE IF ForeignKeyViolation(cat_id)
           THEN \* execute_query rolls back and raises; nothing catches it
                /\ SeqAfterFailedInsert(seq_sightings) <= MaxSightingId
                /\ seq_sightings' = SeqAfterFailedInsert(seq_sightings)
                /\ UNCHANGED sightings
                /\ last' = Response("log_sighting", "db_error", "raise")
         ELSE /\ seq_sightings < MaxSightingId
              /\ seq_sightings' = seq_sightings + 1
              /\ sightings' = With(sightings, seq_sightings + 1,
                                   [cat_id |-> cat_id, date |-> get_utc_now,
                                    location |-> location, notes |-> notes,
                                    image_data |-> image[1], image_type |-> image[2]])
              /\ last' = Response("log_sighting", "inserted", "redirect")

\* remove_sighting(sighting_id)
remove_sighting(sighting_id) ==
  /\ UNCHANGED <<DB_TYPE, cats, cat_photos, seqs, now>>
  /\ sightings' = Without(sightings, {sighting_id})
  /\ last' = Response("remove_sighting", "deleted", "redirect")

\* The loop of add_cat_photos over files[k..]: one INSERT, committed on its
\* own, for every file file_to_base64 turns into image data.  The result is
\* <<cat_photos, seq_photos>>.
RECURSIVE InsertPhotos(_, _, _, _, _, _, _)
InsertPhotos(photos, seq, files, k, cat_id, caption, iso_date) ==
  IF k > Len(files) THEN <<photos, seq>>
  ELSE LET file  == files[k]
           image == IF HasFileName(file) THEN file_to_base64(file) ELSE NoImage
       IN  IF HasFileName(file) /\ Truthy(image[1])
             THEN InsertPhotos(
                    With(photos, seq + 1,
                         [cat_id |-> cat_id,
                          image_data |-> image[1], image_type |-> image[2],
                          caption |-> caption, photo_date |-> iso_date,
                          created_at |-> CreatedAtColumn(get_utc_now)]),
                    seq + 1, files, k + 1, cat_id, caption, iso_date)
             ELSE InsertPhotos(photos, seq, files, k + 1, cat_id, caption, iso_date)

\* add_cat_photos(cat_id)
add_cat_photos(cat_id, caption_in, photo_date_in, photo_time_in, files) ==
  LET caption    == Strip(caption_in)
      photo_date == Strip(photo_date_in)
      photo_time == Strip(photo_time_in)
      iso_date   == IF Truthy(photo_date)
                      THEN combine_date_time(photo_date, photo_time)
                      ELSE get_utc_now
      done       == InsertPhotos(cat_photos, seq_photos, files, 1, cat_id, caption, iso_date)
  IN  /\ UNCHANGED <<DB_TYPE, cats, sightings, seq_cats, seq_sightings, now>>
      /\ IF cat_id \notin DOMAIN cats
           THEN /\ UNCHANGED <<cat_photos, seq_photos>>
                /\ last' = Response("add_cat_photos", "not_found", "redirect")
         ELSE /\ done[2] <= MaxPhotoId
              /\ cat_photos' = done[1]
              /\ seq_photos' = done[2]
              /\ last' = Response("add_cat_photos",
                                  IF done[2] = seq_photos THEN "no_photo" ELSE "inserted",
                                  "redirect")

\* delete_cat_photo deleting the sighting row instead of clearing its image
delete_cat_photo_row(cat_id, source, photo_id) ==
  /\ UNCHANGED <<DB_TYPE, cats, seqs, now>>
  /\ IF source = "gallery"
       THEN /\ cat_photos' =
                 Without(cat_photos, {p \in DOMAIN cat_photos :
                                        p = photo_id /\ cat_photos[p].cat_id = cat_id})
            /\ UNCHANGED sightings
            /\ last' = Response("delete_cat_photo", "gallery", "redirect")
     ELSE IF source = "sighting"
       THEN /\ sightings' =
                 Without(sightings, {x \in DOMAIN sightings :
                                       x = photo_id /\ sightings[x].cat_id = cat_id})
            /\ UNCHANGED cat_photos
            /\ last' = Response("delete_cat_photo", "sighting", "redirect")
     ELSE /\ UNCHANGED <<sightings, cat_photos>>
          /\ last' = Response("delete_cat_photo", "other", "redirect")

\* delete_cat_photo(cat_id, source, photo_id)
delete_cat_photo(cat_id, source, photo_id) ==
  /\ UNCHANGED <<DB_TYPE, cats, seqs, now>>
  /\ IF source = "gallery"
       THEN /\ cat_photos' =
                 Without(cat_photos, {p \in DOMAIN cat_photos :
                                        p = photo_id /\ cat_photos[p].cat_id = cat_id})
            /\ UNCHANGED sightings
            /\ last' = Response("delete_cat_photo", "gallery", "redirect")
     ELSE IF source = "sighting"
       THEN /\ sightings' =
                 [x \in DOMAIN sightings |->
                    IF x = photo_id /\ sightings[x].cat_id = cat_id
                      THEN [sightings[x] EXCEPT !.image_data = NULL, !.image_type = NULL]
                      ELSE sightings[x]]
            /\ UNCHANGED cat_photos
            /\ last' = Response("delete_cat_photo", "sighting", "redirect")
     ELSE /\ UNCHANGED <<sightings, cat_photos>>
          /\ last' = Response("delete_cat_photo", "other", "redirect")

\* set_profile_photo selecting by the photo id alone
SelectedPhotoOfAnyCat(cat_id, source, photo_id) ==
  IF source = "gallery"
    THEN (IF photo_id \in DOMAIN cat_photos
            THEN <<cat_photos[photo_id].image_data, cat_photos[photo_id].image_type>>
            ELSE NoImage)
    ELSE (IF photo_id \in DOMAIN sightings
            THEN <<sightings[photo_id].image_data, sightings[photo_id].image_type>>
            ELSE NoImage)

\* The row set_profile_photo selects: <<image_data, image_type>> of the photo,
\* or NoImage when no row matches (photo is None)
SelectedPhoto(cat_id, source, photo_id) ==
  IF source = "gallery"
    THEN (IF photo_id \in DOMAIN cat_photos /\ cat_photos[photo_id].cat_id = cat_id
            THEN <<cat_photos[photo_id].image_data, cat_photos[photo_id].image_type>>
            ELSE NoImage)
    ELSE (IF photo_id \in DOMAIN sightings /\ sightings[photo_id].cat_id = cat_id
            THEN <<sightings[photo_id].image_data, sightings[photo_id].image_type>>
            ELSE NoImage)

\* set_profile_photo testing image_data against None only
set_profile_photo_not_none(cat_id, source, photo_id) ==
  LET photo == SelectedPhoto(cat_id, source, photo_id)
  IN  /\ UNCHANGED <<DB_TYPE, sightings, cat_photos, seqs, now>>
      /\ IF source \notin {"gallery", "sighting"}
           THEN /\ UNCHANGED cats
                /\ last' = Response("set_profile_photo", "other", "redirect")
         ELSE IF photo[1] # NULL
           THEN /\ cats' = [c \in DOMAIN cats |->
                              IF c = cat_id
                                THEN [cats[c] EXCEPT !.image_data = photo[1],
                                                     !.image_type = photo[2]]
                                ELSE cats[c]]
                /\ last' = Response("set_profile_photo", "copied", "redirect")
         ELSE /\ UNCHANGED cats
              /\ last' = Response("set_profile_photo", "no_image", "redirect")

\* set_profile_photo(cat_id, source, photo_id)
set_profile_photo(cat_id, source, photo_id) ==
  LET photo == SelectedPhoto(cat_id, source, photo_id)
  IN  /\ UNCHANGED <<DB_TYPE, sightings, cat_photos, seqs, now>>
      /\ IF source \notin {"gallery", "sighting"}
           THEN /\ UNCHANGED cats
                /\ last' = Response("set_profile_photo", "other", "redirect")
         ELSE IF Truthy(photo[1])
           THEN /\ cats' = [c \in DOMAIN cats |->
                              IF c = cat_id
                                THEN [cats[c] EXCEPT !.image_data = photo[1],
                                                     !.image_type = photo[2]]
                                ELSE cats[c]]
                /\ last' = Response("set_profile_photo", "copied", "redirect")
         ELSE /\ UNCHANGED cats
              /\ last' = Response("set_profile_photo", "no_image", "redirect")

\* ------------------------------------------------------------------- views
\* The ids in ids, ascending: the order a SELECT without ORDER BY returns rows
RECURSIVE Ascending(_)
Ascending(ids) ==
  IF ids = {} THEN << >>
  ELSE LET least == CHOOSE i \in ids : \A j \in ids : i <= j
       IN  <<least>> \o Ascending(ids \ {least})

\* A created_at column as the driver returns it (see CreatedAtColumn)
FetchedCreatedAt(v) == v

\* The first query of get_all_cat_photos, each row with image_src and iso_date
GalleryPhotos(cat_id) ==
  LET ids == Ascending({p \in DOMAIN cat_photos : cat_photos[p].cat_id = cat_id})
  IN  [k \in 1..Len(ids) |->
         LET p == cat_photos[ids[k]]
             first == normalize_datetime(p.photo_date)
         IN  [id |-> ids[k], source |-> "gallery",
              image_data |-> p.image_data, image_type |-> p.image_type,
              caption |-> p.caption, photo_date |-> p.photo_date,
              created_at |-> FetchedCreatedAt(p.created_at),
              location |-> NULL, notes |-> NULL,
              image_src |-> get_image_src(p.image_data, p.image_type),
              iso_date |-> IF Truthy(first) THEN first
                           ELSE normalize_datetime(FetchedCreatedAt(p.created_at))]]

\* The second query without AND image_data IS NOT NULL
SightingPhotosWithoutFilter(cat_id) ==
  LET ids == Ascending({x \in DOMAIN sightings : sightings[x].cat_id = cat_id})
  IN  [k \in 1..Len(ids) |->
         LET p == sightings[ids[k]]
         IN  [id |-> ids[k], source |-> "sighting",
              image_data |-> p.image_data, image_type |-> p.image_type,
              caption |-> p.notes, photo_date |-> p.date, created_at |-> p.date,
              location |-> p.location, notes |-> p.notes,
              image_src |-> get_image_src(p.image_data, p.image_type),
              iso_date |-> normalize_datetime(p.date)]]

\* The second query of get_all_cat_photos, each row with image_src and iso_date
SightingPhotos(cat_id) ==
  LET ids == Ascending({x \in DOMAIN sightings :
                          sightings[x].cat_id = cat_id /\ sightings[x].image_data # NULL})
  IN  [k \in 1..Len(ids) |->
         LET p == sightings[ids[k]]
         IN  [id |-> ids[k], source |-> "sighting",
              image_data |-> p.image_data, image_type |-> p.image_type,
              caption |-> p.notes, photo_date |-> p.date, created_at |-> p.date,
              location |-> p.location, notes |-> p.notes,
              image_src |-> get_image_src(p.image_data, p.image_type),
              iso_date |-> normalize_datetime(p.date)]]

\* key=lambda x: x['iso_date'] or ''
SortKey(photo) == OrEmpty(photo.iso_date)

\* list.sort(key=..., reverse=True) is stable: x goes behind every entry whose
\* key is not less than its own
InsertDescending(sorted, x) ==
  LET before == {i \in 1..Len(sorted) : StrLeq(SortKey(x), SortKey(sorted[i]))}
      n      == Cardinality(before)
  IN  SubSeq(sorted, 1, n) \o <<x>> \o SubSeq(sorted, n + 1, Len(sorted))

RECURSIVE SortDescending(_, _)
SortDescending(photos, sorted) ==
  IF photos = << >> THEN sorted
  ELSE SortDescending(Tail(photos), InsertDescending(sorted, Head(photos)))

\* get_all_cat_photos(cat_id)
get_all_cat_photos(cat_id) ==
  SortDescending(GalleryPhotos(cat_id) \o SightingPhotos(cat_id), << >>)

\* cat_dict['photo_count'] of cats_list, for the cat with this id
photo_count(cat_id) ==
  Cardinality({p \in DOMAIN cat_photos : cat_photos[p].cat_id = cat_id})
    + Cardinality({x \in DOMAIN sightings :
                     sightings[x].cat_id = cat_id /\ sightings[x].image_data # NULL})

\* cats_list()
cats_list ==
  /\ UNCHANGED <<DB_TYPE, tables, seqs, now>>
  /\ last' = Response("cats_list", "rendered", "render")

\* view_cat(cat_id)
view_cat(cat_id) ==
  /\ UNCHANGED <<DB_TYPE, tables, seqs, now>>
  /\ last' = IF cat_id \in DOMAIN cats
               THEN Response("view_cat", "rendered", "render")
               ELSE Response("view_cat", "not_found", "redirect")

\* Time passes between requests
Tick ==
  /\ now < MaxClock
  /\ now' = now + 1
  /\ UNCHANGED <<DB_TYPE, tables, seqs, last>>

\* ------------------------------------------------------------ specification
\* Any request, with its form fields and files drawn from the given sets
Request(names, files, lists, dates, times) ==
  \/ \E n \in names : quick_add_cat(n)
  \/ \E n \in names, d \in TextInputs, f \in files : add_cat(n, d, f)
  \/ \E c \in CatIds, n \in names, d \in TextInputs, f \in files : edit_cat(c, n, d, f)
  \/ \E c \in CatIds : remove_profile_photo(c)
  \/ \E c \in CatIds : delete_cat(c)
  \/ \E c \in CatIdInputs, l \in TextInputs, n \in TextInputs, f \in files :
       log_sighting(c, l, n, f)
  \/ \E x \in SightingIds : remove_sighting(x)
  \/ \E c \in CatIds, t \in TextInputs, d \in dates, h \in times,
        fs \in lists :
       add_cat_photos(c, t, d, h, fs)
  \/ \E c \in CatIds, src \in SourceInputs, p \in SightingIds \cup PhotoIds :
       delete_cat_photo(c, src, p)
  \/ \E c \in CatIds, src \in SourceInputs, p \in SightingIds \cup PhotoIds :
       set_profile_photo(c, src, p)
  \/ cats_list
  \/ \E c \in CatIds : view_cat(c)

\* Requests about cats of two names, one image
Next == Request(NameInputs, FileInputs, FileLists, NoPhotoDate, NoPhotoDate)

Spec == Init /\ [][Next]_vars

\* Requests about one cat at a time, with every kind of upload
NextUploads == Request(OneName, UploadInputs, GalleryLists, NoPhotoDate, NoPhotoDate)

SpecUploads == Init /\ [][NextUploads]_vars

\* Requests about one cat at a time, with photo dates, while time passes
NextDates == Request(OneName, ImageInputs, ImageLists, PhotoDateInputs, PhotoTimeInputs) \/ Tick

SpecDates == Init /\ [][NextDates]_vars

\* Requests that rename cats of two names, with or without a file
NextEdits == Request(EditNames, FileInputs, EditLists, NoPhotoDate, NoPhotoDate)

SpecEdits == Init /\ [][NextEdits]_vars

\* ------------------------------------------------------------------ claims
\* C1: once delete_cat(c) has completed, sightings and cat_photos hold no row
\* whose cat_id is c and cats holds no row with id c.
C1_DeleteCatLeavesNoRows ==
  [][\A c \in CatIds :
       last'.op = "delete_cat" /\ delete_cat(c) =>
         /\ c \notin DOMAIN cats'
         /\ \A x \in DOMAIN sightings' : sightings'[x].cat_id # c
         /\ \A p \in DOMAIN cat_photos' : cat_photos'[p].cat_id # c]_vars

\* delete_cat has just removed the last cat, and the sightings and photos that
\* were logged are gone with it
C1_Witness ==
  /\ last.op = "delete_cat"
  /\ seq_cats > 0 /\ cats = << >>
  /\ seq_sightings > 0 /\ sightings = << >>
  /\ seq_photos > 0 /\ cat_photos = << >>

\* C2: in every reachable state every sightings row and every cat_photos row
\* has the cat_id of a cat row that exists.
C2_NoOrphanRows ==
  /\ \A x \in DOMAIN sightings : sightings[x].cat_id \in DOMAIN cats
  /\ \A p \in DOMAIN cat_photos : cat_photos[p].cat_id \in DOMAIN cats

\* C3: add_cat and quick_add_cat with a trimmed name an existing cat already
\* has leave the cats table as it was and end in a redirect.
C3_DuplicateNameIgnored ==
  [][\A n \in NameInputs :
       /\ last'.op \in {"add_cat", "quick_add_cat"}
       /\ \E c \in DOMAIN cats : cats[c].name = Strip(n)
       /\ \/ quick_add_cat(n)
          \/ \E d \in TextInputs, f \in FileInputs : add_cat(n, d, f)
       => cats' = cats /\ last'.result = "redirect"]_vars

\* An insert of a name that is taken has just been swallowed
C3_Witness ==
  /\ last.op \in {"add_cat", "quick_add_cat"}
  /\ last.path = "swallowed"
  /\ cats # << >>

\* C4: edit_cat renaming cat c to the name of another existing cat ends in a
\* redirect, no exception leaves the handler, and the cats table is unchanged.
C4_EditConflictSwallowed ==
  [][\A c \in CatIds, n \in NameInputs, d \in TextInputs, f \in FileInputs :
       /\ last'.op = "edit_cat"
       /\ c \in DOMAIN cats
       /\ \E o \in DOMAIN cats \ {c} : cats[o].name = Strip(n)
       /\ edit_cat(c, n, d, f)
       => cats' = cats /\ last'.result = "redirect"]_vars

\* <<image_data, image_type>> of a row
ImageOf(row) == <<row.image_data, row.image_type>>

\* The gallery and sighting images stored for cat c
StoredImagesOf(c) ==
  {ImageOf(cat_photos[p]) : p \in {q \in DOMAIN cat_photos : cat_photos[q].cat_id = c}}
    \cup {ImageOf(sightings[x]) : x \in {y \in DOMAIN sightings : sightings[y].cat_id = c}}

\* C5 as stated: in every reachable state every cat whose profile image is
\* present has the bytes and MIME type of some gallery photo row or sighting
\* image that is stored now.
C5_ProfileImageIsStoredPhoto ==
  \A c \in DOMAIN cats :
    cats[c].image_data # NULL =>
      \E o \in CatIds : ImageOf(cats[c]) \in StoredImagesOf(o)

\* C5 as amended: a profile image is set only by an upload to add_cat or
\* edit_cat, or by set_profile_photo copying an image of that cat's gallery or
\* sightings that is stored when it copies; no other request sets one, and
\* the copy stays when the photo it came from is deleted.
C5_ProfileImageProvenance ==
  [][\A c \in DOMAIN cats' :
       LET new == ImageOf(cats'[c])
           old == IF c \in DOMAIN cats THEN ImageOf(cats[c]) ELSE NoImage
       IN  new[1] # NULL /\ new # old =>
             \/ /\ last'.op \in {"add_cat", "edit_cat"}
                /\ \E f \in FileInputs \ {NoFile} :
                     new = <<b64encode(FileBytes(f)), file_to_base64(f)[2]>>
             \/ /\ last'.op = "set_profile_photo"
                /\ new \in StoredImagesOf(c)]_vars

\* set_profile_photo has just copied an image of the cat's own photos
C5_Witness ==
  /\ last.op = "set_profile_photo"
  /\ last.path = "copied"
  /\ \E c \in DOMAIN cats :
       cats[c].image_data # NULL /\ ImageOf(cats[c]) \in StoredImagesOf(c)

\* The rows set_profile_photo(c, source, p) refers to: gallery row p or
\* sighting p, belonging to cat c
ReferencedPhoto(c, source, p) ==
  IF source = "gallery"
    THEN {cat_photos[q] : q \in {r \in DOMAIN cat_photos : r = p /\ cat_photos[r].cat_id = c}}
  ELSE IF source = "sighting"
    THEN {sightings[q] : q \in {r \in DOMAIN sightings : r = p /\ sightings[r].cat_id = c}}
  ELSE {}

\* C7: set_profile_photo(c, source, p) gives cat c the image_data and
\* image_type of the referenced photo when that photo has an image payload;
\* when it is not found or has no payload (None or ''), or source is neither
\* 'gallery' nor 'sighting', no stored row changes.
C7_SetProfilePhoto ==
  [][\A c \in CatIds, src \in SourceInputs, p \in SightingIds \cup PhotoIds :
       last'.op = "set_profile_photo" /\ set_profile_photo(c, src, p) =>
         LET payload == {r \in ReferencedPhoto(c, src, p) :
                           r.image_data # NULL /\ r.image_data # EMPTY}
         IN  IF payload # {}
               THEN c \in DOMAIN cats =>
                      /\ c \in DOMAIN cats'
                      /\ \A r \in payload : ImageOf(cats'[c]) = ImageOf(r)
               ELSE tables' = tables]_vars

\* set_profile_photo has just copied the second image from a sighting
C7_Witness ==
  /\ last.op = "set_profile_photo"
  /\ last.path = "copied"
  /\ \E c \in DOMAIN cats, x \in DOMAIN sightings :
       /\ sightings[x].cat_id = c
       /\ sightings[x].image_type = IMAGE_JPEG
       /\ ImageOf(cats[c]) = ImageOf(sightings[x])

\* C8: delete_cat_photo with source 'gallery' removes the matching cat_photos
\* row and changes nothing else; with source 'sighting' it sets image_data
\* and image_type of the matching sighting to null, the row stays with its
\* id, cat_id, date, location and notes, and no sightings row is added or
\* removed.
C8_DeleteCatPhoto ==
  [][\A c \in CatIds, p \in SightingIds \cup PhotoIds :
       /\ last'.op = "delete_cat_photo" /\ delete_cat_photo(c, "gallery", p) =>
            /\ DOMAIN cat_photos' =
                 DOMAIN cat_photos \ {q \in {p} : q \in DOMAIN cat_photos
                                                    /\ cat_photos[q].cat_id = c}
            /\ \A q \in DOMAIN cat_photos' : cat_photos'[q] = cat_photos[q]
            /\ cats' = cats /\ sightings' = sightings
       /\ last'.op = "delete_cat_photo" /\ delete_cat_photo(c, "sighting", p) =>
            /\ DOMAIN sightings' = DOMAIN sightings
            /\ \A x \in DOMAIN sightings :
                 IF x = p /\ sightings[x].cat_id = c
                   THEN /\ sightings'[x].image_data = NULL
                        /\ sightings'[x].image_type = NULL
                        /\ sightings'[x].cat_id = sightings[x].cat_id
                        /\ sightings'[x].date = sightings[x].date
                        /\ sightings'[x].location = sightings[x].location
                        /\ sightings'[x].notes = sightings[x].notes
                   ELSE sightings'[x] = sightings[x]]_vars

\* delete_cat_photo has just cleared the image of a sighting that is still
\* there, with its location and notes
C8_Witness ==
  /\ last.op = "delete_cat_photo"
  /\ last.path = "sighting"
  /\ \E x \in DOMAIN sightings :
       /\ sightings[x].cat_id \in DOMAIN cats
       /\ sightings[x].image_data = NULL
       /\ sightings[x].location \in TextInputs

\* C9: for every cat, photo_count of cats_list is the number of cat_photos
\* rows of the cat plus the number of its sightings rows whose image_data is
\* not null, and is the length of the list get_all_cat_photos returns.
C9_PhotoCount ==
  \A c \in CatIds :
    /\ photo_count(c) =
         Cardinality({<<"gallery", p>> : p \in {q \in DOMAIN cat_photos :
                                                  cat_photos[q].cat_id = c}}
                     \cup {<<"sighting", x>> : x \in {y \in DOMAIN sightings :
                                                        /\ sightings[y].cat_id = c
                                                        /\ sightings[y].image_data # NULL}})
    /\ photo_count(c) = Len(get_all_cat_photos(c))

\* cats_list has just rendered a cat with a gallery photo and a sighting photo
C9_Witness ==
  /\ last.op = "cats_list"
  /\ \E c \in DOMAIN cats : photo_count(c) = 2

\* The canonical timestamp form: YYYY-MM-DDTHH:MM:SSZ
IsCanonical(v) ==
  /\ v # NULL
  /\ Len(v) = 20
  /\ \A i \in {1, 2, 3, 4, 6, 7, 9, 10, 12, 13, 15, 16, 18, 19} : IsDigit(v[i])
  /\ v[5] = DASH /\ v[8] = DASH /\ v[11] = UPPER_T
  /\ v[14] = COLON /\ v[17] = COLON /\ v[20] = UPPER_Z

\* C6: the list get_all_cat_photos returns is ordered non-increasing by
\* resolved date, and every entry whose date cannot be resolved to the
\* canonical timestamp form comes after every entry whose date can.
C6_PhotosNewestFirst ==
  \A c \in CatIds :
    LET photos == get_all_cat_photos(c)
    IN  \A i \in 1..Len(photos), j \in 1..Len(photos) :
          i < j =>
            /\ StrLeq(OrEmpty(photos[j].iso_date), OrEmpty(photos[i].iso_date))
            /\ IsCanonical(photos[j].iso_date) => IsCanonical(photos[i].iso_date)

\* The fixed mapping of extensions to MIME types
ExtensionMime ==
  { <<Str(<<"j", "p", "g">>), Str(<<"i", "m", "a", "g", "e", "/", "j", "p", "e", "g">>)>>,
    <<Str(<<"j", "p", "e", "g">>), Str(<<"i", "m", "a", "g", "e", "/", "j", "p", "e", "g">>)>>,
    <<Str(<<"p", "n", "g">>), Str(<<"i", "m", "a", "g", "e", "/", "p", "n", "g">>)>>,
    <<Str(<<"g", "i", "f">>), Str(<<"i", "m", "a", "g", "e", "/", "g", "i", "f">>)>>,
    <<Str(<<"w", "e", "b", "p">>), Str(<<"i", "m", "a", "g", "e", "/", "w", "e", "b", "p">>)>> }

\* name ends with a dot and then ext, in upper or lower case
HasExtension(name, ext) ==
  /\ Len(name) > Len(ext)
  /\ name[Len(name) - Len(ext)] = DOT
  /\ \A i \in 1..Len(ext) : LowerChar(name[Len(name) - Len(ext) + i]) = ext[i]

\* The MIME type the fixed mapping gives a file name, NULL when its extension
\* is none of the five
MimeOf(name) ==
  IF \E em \in ExtensionMime : HasExtension(name, em[1])
    THEN (CHOOSE em \in ExtensionMime : HasExtension(name, em[1]))[2]
    ELSE NULL

\* A file whose name has an accepted extension
Accepted(file) == file # NoFile /\ MimeOf(FileName(file)) # NULL

\* A file add_cat_photos and edit_cat store: accepted, and not empty
Storable(file) == Accepted(file) /\ FileBytes(file) # << >>

\* More file names: jpeg, webp in mixed case, a longer extension, only an
\* extension, a trailing dot
FileNameSamples ==
  { Str(<<"d", ".", "j", "p", "e", "g">>), Str(<<"w", ".", "W", "e", "b", "P">>),
    Str(<<"x", ".", "p", "n", "g", "x">>), Str(<<".", "p", "n", "g">>),
    Str(<<"p", "n", "g", ".">>) }

\* C10: an upload to add_cat, edit_cat, log_sighting or add_cat_photos whose
\* file name ends in png, jpg, jpeg, gif or webp (any case) is stored with
\* exactly the MIME type the fixed mapping gives that extension (edit_cat and
\* add_cat_photos store it when it has content); any other file leaves the
\* request as it is without the file: no image is stored from it and it
\* raises nothing.  (The first conjunct depends on no state and is looked at
\* in the first step only.)
C10_UploadMimeType ==
  [][/\ last.op = "init_db" =>
          \A name \in FileNameSamples : file_to_base64(<<name, <<1>>>>)[2] = MimeOf(name)
     /\ last'.op = "add_cat" =>
          \A n \in OneName, d \in TextInputs, f \in UploadInputs \ {NoFile} :
            add_cat(n, d, f) =>
              IF Accepted(f)
                THEN \A c \in DOMAIN cats' \ DOMAIN cats :
                       /\ cats'[c].image_type = MimeOf(FileName(f))
                       /\ cats'[c].image_data # NULL
                ELSE add_cat(n, d, NoFile)
     /\ last'.op = "edit_cat" =>
          \A c \in CatIds, n \in OneName, d \in TextInputs, f \in UploadInputs \ {NoFile} :
            edit_cat(c, n, d, f) =>
              IF Storable(f)
                THEN c \in DOMAIN cats /\ Strip(n) # EMPTY /\ last'.result = "redirect" =>
                       /\ cats'[c].image_type = MimeOf(FileName(f))
                       /\ cats'[c].image_data # NULL
              ELSE IF Accepted(f)
                THEN \A o \in DOMAIN cats : ImageOf(cats'[o]) = ImageOf(cats[o])
                ELSE edit_cat(c, n, d, NoFile)
     /\ last'.op = "log_sighting" =>
          \A c \in CatIdInputs, l \in TextInputs, n \in TextInputs,
             f \in UploadInputs \ {NoFile} :
            log_sighting(c, l, n, f) =>
              IF Accepted(f)
                THEN \A x \in DOMAIN sightings' \ DOMAIN sightings :
                       /\ sightings'[x].image_type = MimeOf(FileName(f))
                       /\ sightings'[x].image_data # NULL
                ELSE log_sighting(c, l, n, NoFile)
     /\ last'.op = "add_cat_photos" =>
          \A c \in CatIds, t \in TextInputs, fs \in GalleryLists :
            add_cat_photos(c, t, EMPTY, EMPTY, fs) =>
              LET stored == SelectSeq(fs, Storable)
              IN  /\ DOMAIN cat_photos' \ DOMAIN cat_photos =
                       IF c \in DOMAIN cats
                         THEN (seq_photos + 1)..(seq_photos + Len(stored))
                         ELSE {}
                  /\ \A q \in DOMAIN cat_photos : cat_photos'[q] = cat_photos[q]
                  /\ \A k \in 1..Len(stored) :
                       c \in DOMAIN cats =>
                         cat_photos'[seq_photos + k].image_type
                           = MimeOf(FileName(stored[k]))
                  /\ last'.result = "redirect"]_vars

\* Uploads have just been stored: a.PNG as a profile image, b.jpg with a
\* sighting, g.x.gif in the gallery
C10_Witness ==
  /\ last.op = "add_cat_photos"
  /\ last.path = "inserted"
  /\ \E p \in DOMAIN cat_photos : cat_photos[p].image_type = IMAGE_GIF
  /\ \E x \in DOMAIN sightings : sightings[x].image_type = IMAGE_JPEG
  /\ \E c \in DOMAIN cats : cats[c].image_type = IMAGE_PNG

\* A file edit_cat gets no image from because its name is not accepted
Refused(file) == file # NoFile /\ ~ Accepted(file)

\* C11: edit_cat(c) with a non-empty trimmed name and no uploaded file, or a
\* file whose extension is outside the allow-list, changes nothing but the name
\* and description of cat c, which become the trimmed inputs when the UPDATE
\* goes through: image_data, image_type and created_at of cat c, every other
\* cat row, and all sightings and cat_photos rows stay as they were.  With an
\* empty trimmed name no row changes at all.
C11_EditCatFrame ==
  [][last'.op = "edit_cat" =>
       \A f \in FileInputs :
         f = NoFile \/ Refused(f) =>
           \A c \in CatIds, n \in EditNames, d \in TextInputs :
             edit_cat(c, n, d, f) =>
               /\ sightings' = sightings
               /\ cat_photos' = cat_photos
               /\ DOMAIN cats' = DOMAIN cats
               /\ \A o \in DOMAIN cats \ {c} : cats'[o] = cats[o]
               /\ c \in DOMAIN cats =>
                    /\ cats'[c] = [cats[c] EXCEPT !.name = cats'[c].name,
                                                  !.description = cats'[c].description]
                    /\ Strip(n) # EMPTY /\ last'.result = "redirect" =>
                         /\ cats'[c].name = Strip(n)
                         /\ cats'[c].description = Strip(d)
               /\ Strip(n) = EMPTY => cats' = cats]_vars

\* A cat with a profile image, beside another cat, sightings and gallery
\* photos, has just been renamed by an edit_cat that came with c.txt or with
\* no file; its image is still there
C11_Witness ==
  /\ last.op = "edit_cat"
  /\ last.path = "updated"
  /\ Cardinality(DOMAIN cats) = 2
  /\ sightings # << >>
  /\ cat_photos # << >>
  /\ \E c \in DOMAIN cats :
       /\ cats[c].image_data # NULL
       /\ cats[c].image_type = IMAGE_PNG
       /\ cats[c].name = Str(<<"b">>)

====
